---- MODULE Spec2Model ----
(***************************************************************************)
(* Model of auto-git-commit-message: the OllamaServer lifecycle manager    *)
(* (server_utils.py), generate_commit_message and the __main__ run         *)
(* (git_diff_llm.py).                                                      *)
(*                                                                         *)
(* Time is counted in ticks of 0.5 s (the sleep of the startup poll).      *)
(* The host is a process table: the manager spawns processes 1..MaxSpawn   *)
(* in order, ExtPid is an "ollama serve" started by some other actor.      *)
(* One process at a time holds the port 11434 (serving).                   *)
(*                                                                         *)
(* PureSpec runs the text pipeline (split_diff_by_file, preprocess_diff,   *)
(* the clean-up of the response) and the liveness probe on every input of  *)
(* the bounds: a text is a sequence of lines, a response a sequence of     *)
(* pieces (white space, the prefix, a word).                               *)
(***************************************************************************)
EXTENDS Integers, Naturals, Sequences, FiniteSets, TLC

\* ---- bounds of the model ----
MaxSpawn == 2
MaxCalls == 3
MaxLines == 3
MaxResp == 2

\* ---- program constants ----
None == 0
StartTimeoutTicks == 10
SleepTicks == 1
ProbeTimeoutTicks == 10

Pids == 1..MaxSpawn
ExtPid == MaxSpawn + 1
Procs == 1..(MaxSpawn + 1)

VARIABLES
    mode,        \* "main": the __main__ run; "api": calls on one OllamaServer
    pc,          \* position of the (single) thread of control
    ret,         \* where the running start()/generate_commit_message returns
    proc,        \* self.proc: None or the pid of the Popen handle
    ps,          \* process table: "unborn", "alive", "exited"
    serving,     \* the process answering 200 on /api/tags, or None
    elapsed,     \* time.time() - start_time, in ticks, while start() polls
    pid,         \* generate_commit_message's local pid, as a truth value
    appendNote,  \* generate_commit_message's local append_note
    raisedAt,    \* the step of this request that raised: "none", "filter", "infer", "clean"
    diffKind,    \* the diff text read by __main__: "unread", "empty", "text"
    calls,       \* number of api calls made so far
    \* history variables (observations of the run, never read by the program)
    spawned,     \* pids the manager obtained from Popen
    termCount,   \* per process: number of terminate() calls by the manager
    waitCount,   \* per process: number of wait() calls by the manager
    upAtStart,   \* a server was up when the run began
    probed,      \* a liveness probe was issued
    startErr,    \* outcome of the last start(): "none", "ok", "timeout", "oserror"
    inferCalls,  \* llm.generate calls of the current request
    snapTaken,   \* the request took its snapshot
    finallyRan,  \* the finally block of the current request has run
    stopInGen,   \* the finally block called server.stop()
    genOutcome   \* "none", "running", "returned", "raised"

\* the text pipeline, run on its own (mode = "pure")
VARIABLES
    diff_text,          \* the diff handed to generate_commit_message
    distracting_files,  \* the noise file names
    file_diffs,         \* split_diff_by_file(diff_text)
    filtered,           \* preprocess_diff(diff_text, distracting_files)
    refiltered,         \* preprocess_diff applied to the filtered text
    response,           \* what llm.generate answered
    commit_msg,         \* what generate_commit_message returns
    http,               \* what the health check met
    probe               \* what is_running made of it

progVars == <<mode, pc, ret, proc, elapsed, pid, appendNote, raisedAt, diffKind, calls>>
hostVars == <<ps, serving>>
histVars == <<spawned, termCount, waitCount, upAtStart, probed, startErr,
              inferCalls, snapTaken, finallyRan, stopInGen, genOutcome>>
pureVars == <<diff_text, distracting_files, file_diffs, filtered, refiltered,
              response, commit_msg, http, probe>>
vars == <<progVars, hostVars, histVars, pureVars>>

\* ---- texts: a string is the sequence of its pieces between "\n" ----
\* ("" is one blank piece; a text ending in "\n" ends in a blank piece)

Names == {"a.py", "uv.lock"}
NoFile == ""
PathIndex == 3

Hdr(a, b) == [k |-> "hdr", a |-> a, b |-> b]    \* diff --git a/<a> b/<b>
BadHdr == [k |-> "bad", a |-> "", b |-> ""]     \* diff --git
Txt == [k |-> "txt", a |-> "", b |-> ""]        \* +x
Blank == [k |-> "blank", a |-> "", b |-> ""]    \* the empty piece
LineSet == {Hdr(a, b) : a \in Names, b \in Names} \cup {BadHdr, Txt, Blank}
Texts == UNION {[1..n -> LineSet] : n \in 1..MaxLines}

\* str.splitlines(): a final "\n" opens no further line, "" has no line
splitlines(t) == IF t[Len(t)] = Blank THEN SubSeq(t, 1, Len(t) - 1) ELSE t

\* "\n".join(lines) of single lines
JoinLines(ls) == IF ls = <<>> THEN <<Blank>> ELSE ls

\* "\n".join(strings)
RECURSIVE Concat(_)
Concat(ss) == IF ss = <<>> THEN <<>> ELSE Head(ss) \o Concat(Tail(ss))
JoinStrs(ss) == IF ss = <<>> THEN <<Blank>> ELSE Concat(ss)

\* line.startswith("diff --git")
StartsWithDiffGit(line) == line.k \in {"hdr", "bad"}

\* line.split(" "): tokens, a path token being its two-character prefix and the rest
Tok(pre, rest) == [pre |-> pre, rest |-> rest]
Parts(line) ==
    CASE line.k = "hdr" -> <<Tok("", "diff"), Tok("", "--git"),
                             Tok("a/", line.a), Tok("b/", line.b)>>
      [] line.k = "bad" -> <<Tok("", "diff"), Tok("", "--git")>>
      [] line.k = "txt" -> <<Tok("", "+x")>>
      [] OTHER -> <<Tok("", "")>>

\* token[2:] of a path token
Strip2(tok) == tok.rest

\* a dict in insertion order: d[k] = v
KeysOf(d) == [i \in 1..Len(d) |-> d[i].key]
ValuesOf(d) == [i \in 1..Len(d) |-> d[i].val]
Put(d, k, v) ==
    IF \E i \in 1..Len(d) : d[i].key = k
    THEN [i \in 1..Len(d) |-> IF d[i].key = k THEN [key |-> k, val |-> v] ELSE d[i]]
    ELSE Append(d, [key |-> k, val |-> v])

\* ---- split_diff_by_file ----

\* lines 115-116 and 127-128: save the lines gathered for the current file
Save(fd, cur, acc) ==
    IF cur # NoFile /\ acc # <<>> THEN Put(fd, cur, JoinLines(acc)) ELSE fd

\* lines 118-121: the file a header line names
FileOf(line, cur) ==
    IF Len(Parts(line)) >= 3 THEN Strip2(Parts(line)[PathIndex]) ELSE cur

\* lines 112-124: the loop over the lines
RECURSIVE SplitLoop(_, _, _, _)
SplitLoop(ls, fd, cur, acc) ==
    IF ls = <<>>
    THEN Save(fd, cur, acc)
    ELSE LET line == Head(ls) IN
         IF StartsWithDiffGit(line)
         THEN SplitLoop(Tail(ls), Save(fd, cur, acc), FileOf(line, cur), <<line>>)
         ELSE SplitLoop(Tail(ls), fd, cur, Append(acc, line))

split_diff_by_file(t) == SplitLoop(splitlines(t), <<>>, NoFile, <<>>)

\* ---- preprocess_diff ----

DefaultNoise == {"pyproject.toml", "uv.lock"}
NoiseSets == {DefaultNoise, {"a.py"}}

\* line 154: filename in distracting_files
IsNoiseNever(name, noise) == FALSE
IsNoise(name, noise) == name \in noise

\* lines 152-157: the loop over file_diffs.items()
RECURSIVE FilterLoop(_, _, _, _)
FilterLoop(items, noise, kept, note) ==
    IF items = <<>>
    THEN [kept |-> kept, note |-> note]
    ELSE LET it == Head(items) IN
         IF IsNoise(it.key, noise)
         THEN FilterLoop(Tail(items), noise, kept, TRUE)
         ELSE FilterLoop(Tail(items), noise, Put(kept, it.key, it.val), note)

preprocess_diff(t, noise) ==
    LET r == FilterLoop(split_diff_by_file(t), noise, <<>>, FALSE)
    IN [text |-> JoinStrs(ValuesOf(r.kept)), note |-> r.note]

\* ---- lines 241-245 of generate_commit_message ----

\* a response is a sequence of pieces: white space, the prefix in either
\* spelling, a word
Pfx == "**Commit Message:**"
PfxLower == "**commit message:**"
RespTok == {"ws", Pfx, PfxLower, "w"}
Responses == UNION {[1..n -> RespTok] : n \in 0..MaxResp}

\* " and updated documentation accordingly"
Clause == <<"ws", "and updated documentation accordingly">>

\* lines 241-242
WithNoteAlways(r, note) == r \o Clause
WithNote(r, note) == IF note THEN r \o Clause ELSE r

\* re.IGNORECASE
Lower(tok) == IF tok = Pfx THEN PfxLower ELSE tok

\* \s* : the white space at the head of r
RECURSIVE SkipWs(_)
SkipWs(r) == IF r # <<>> /\ Head(r) = "ws" THEN SkipWs(Tail(r)) ELSE r

\* line 245: re.sub(r'^\s*\*\*Commit Message:\*\*\s*', '', response, flags=re.IGNORECASE)
ReSub(r) ==
    LET a == SkipWs(r) IN
    IF a # <<>> /\ Lower(Head(a)) = PfxLower THEN SkipWs(Tail(a)) ELSE r

\* ---- OllamaServer.is_running, on what requests.get meets ----
HttpOutcomes == {"200", "404", "500", "refused", "timeout"}

\* requests.get raises on a refused connection and on the 5 s timeout
GetRaises(o) == o \in {"refused", "timeout"}

\* line 41: except Exception
CaughtConnectionOnly(o) == o = "refused"
Caught(o) == TRUE

\* lines 38-42: "True", "False", or "raises" when the exception gets out
is_running_on(o) ==
    IF GetRaises(o)
    THEN IF Caught(o) THEN "False" ELSE "raises"
    ELSE IF o = "200" THEN "True" ELSE "False"


\* ---- OllamaServer.is_running: true exactly on HTTP 200, false otherwise ----
HealthCheck == IF serving # None THEN "200" ELSE "refused"
is_running == is_running_on(HealthCheck) = "True"

\* ---- OllamaServer.get_pid: pgrep -f "ollama serve" finds a live process ----
get_pid == \E p \in Procs : ps[p] = "alive"

\* the text pipeline at rest
PureIdle ==
    /\ diff_text = <<Blank>>
    /\ distracting_files = DefaultNoise
    /\ file_diffs = <<>>
    /\ filtered = [text |-> <<Blank>>, note |-> FALSE]
    /\ refiltered = [text |-> <<Blank>>, note |-> FALSE]
    /\ response = <<>>
    /\ commit_msg = <<>>
    /\ http = "none"
    /\ probe = "none"

\* ---- OllamaServer.__init__ ----
Init ==
    /\ mode \in {"main", "api"}
    /\ pc = IF mode = "main" THEN "m_start" ELSE "idle"
    /\ ret = "none"
    /\ proc = None
    /\ \E up \in BOOLEAN :
          /\ ps = [p \in Procs |-> IF p = ExtPid /\ up THEN "alive" ELSE "unborn"]
          /\ serving = IF up THEN ExtPid ELSE None
          /\ upAtStart = up
    /\ elapsed = 0
    /\ pid = FALSE
    /\ appendNote = FALSE
    /\ raisedAt = "none"
    /\ diffKind = "unread"
    /\ calls = 0
    /\ spawned = {}
    /\ termCount = [p \in Procs |-> 0]
    /\ waitCount = [p \in Procs |-> 0]
    /\ probed = FALSE
    /\ startErr = "none"
    /\ inferCalls = 0
    /\ snapTaken = FALSE
    /\ finallyRan = FALSE
    /\ stopInGen = FALSE
    /\ genOutcome = "none"
    /\ PureIdle

\* ---- the other actor and the server processes (the host) ----

\* some other actor starts its own "ollama serve"; it binds the port when free
ExtStart ==
    /\ ps[ExtPid] = "unborn"
    /\ serving = None
    /\ ps' = [ps EXCEPT ![ExtPid] = "alive"]
    /\ serving' = ExtPid
    /\ UNCHANGED <<progVars, histVars, pureVars>>

\* that actor stops its server
ExtStop ==
    /\ ps[ExtPid] = "alive"
    /\ ps' = [ps EXCEPT ![ExtPid] = "exited"]
    /\ serving' = IF serving = ExtPid THEN None ELSE serving
    /\ UNCHANGED <<progVars, histVars, pureVars>>

\* a spawned "ollama serve" binds the port and answers the health check
SrvReady(p) ==
    /\ p \in Pids
    /\ ps[p] = "alive"
    /\ serving = None
    /\ serving' = p
    /\ UNCHANGED <<ps, progVars, histVars, pureVars>>

\* a spawned "ollama serve" exits by itself (port taken, crash)
SrvExit(p) ==
    /\ p \in Pids
    /\ ps[p] = "alive"
    /\ ps' = [ps EXCEPT ![p] = "exited"]
    /\ serving' = IF serving = p THEN None ELSE serving
    /\ UNCHANGED <<progVars, histVars, pureVars>>

\* ---- where an exception leaving a call goes: __main__ catches nothing ----
Raised == IF mode = "main" THEN "crashed" ELSE "idle"

\* the same for an exception leaving server.start() (line 265)
StartRaisedGoOn == IF mode = "main" THEN "m_read" ELSE "idle"
StartRaised == IF mode = "main" THEN "crashed" ELSE "idle"

\* ---- OllamaServer.stop ----
StopBodyKeep ==
    IF proc # None
    THEN /\ termCount' = [termCount EXCEPT ![proc] = @ + 1]
         /\ waitCount' = [waitCount EXCEPT ![proc] = @ + 1]
         /\ ps' = [ps EXCEPT ![proc] = "exited"]
         /\ serving' = IF serving = proc THEN None ELSE serving
         /\ proc' = proc
    ELSE UNCHANGED <<proc, ps, serving, termCount, waitCount>>

StopBodyServing ==
    LET t == IF proc # None THEN proc ELSE serving IN
    IF t # None
    THEN /\ termCount' = [termCount EXCEPT ![t] = @ + 1]
         /\ waitCount' = [waitCount EXCEPT ![t] = @ + 1]
         /\ ps' = [ps EXCEPT ![t] = "exited"]
         /\ serving' = IF serving = t THEN None ELSE serving
         /\ proc' = None
    ELSE UNCHANGED <<proc, ps, serving, termCount, waitCount>>

StopBody ==
    IF proc # None
    THEN /\ termCount' = [termCount EXCEPT ![proc] = @ + 1]
         /\ waitCount' = [waitCount EXCEPT ![proc] = @ + 1]
         /\ ps' = [ps EXCEPT ![proc] = "exited"]
         /\ serving' = IF serving = proc THEN None ELSE serving
         /\ proc' = None
    ELSE UNCHANGED <<proc, ps, serving, termCount, waitCount>>

\* ---- OllamaServer.start ----

\* the handle start() holds when the first probe answers
ProbedHandleAdopt == serving
ProbedHandle == proc

\* lines 52-53: the first probe; return at once when the server answers
StartProbe ==
    /\ pc = "start_probe"
    /\ probed' = TRUE
    /\ IF is_running
       THEN /\ proc' = ProbedHandle
            /\ pc' = ret
            /\ ret' = "none"
            /\ startErr' = "ok"
       ELSE /\ pc' = "start_spawn"
            /\ UNCHANGED <<proc, ret, startErr>>
    /\ UNCHANGED <<pureVars, mode, elapsed, pid, appendNote, raisedAt, diffKind, calls>>
    /\ UNCHANGED <<hostVars, spawned, termCount, waitCount, upAtStart,
                   inferCalls, snapTaken, finallyRan, stopInGen, genOutcome>>

\* lines 55-64: Popen(["ollama", "serve"]), then start_time = time.time()
StartSpawn ==
    /\ pc = "start_spawn"
    /\ \E ok \in BOOLEAN :
         IF ok
         THEN LET p == Cardinality(spawned) + 1 IN
              /\ p \in Pids
              /\ proc' = p
              /\ spawned' = spawned \cup {p}
              /\ ps' = [ps EXCEPT ![p] = "alive"]
              /\ elapsed' = 0
              /\ pc' = "start_poll"
              /\ UNCHANGED <<ret, startErr>>
         ELSE /\ pc' = StartRaised
              /\ ret' = "none"
              /\ startErr' = "oserror"
              /\ UNCHANGED <<proc, spawned, ps, elapsed>>
    /\ UNCHANGED <<pureVars, mode, pid, appendNote, raisedAt, diffKind, calls, serving>>
    /\ UNCHANGED <<termCount, waitCount, upAtStart, probed,
                   inferCalls, snapTaken, finallyRan, stopInGen, genOutcome>>

\* line 66: time.time() - start_time > timeout
TimedOut(e) == e > StartTimeoutTicks

\* the clock after one more round of the loop: a probe of d ticks, then the sleep
AdvanceStuck(e, d) == 0
Advance(e, d) == e + d + SleepTicks

\* lines 65-68: one round of the poll loop; the probe takes d ticks
StartPoll ==
    /\ pc = "start_poll"
    /\ probed' = TRUE
    /\ \E d \in 0..ProbeTimeoutTicks :
         IF is_running
         THEN /\ pc' = ret
              /\ ret' = "none"
              /\ startErr' = "ok"
              /\ elapsed' = 0
         ELSE IF TimedOut(elapsed + d)
              THEN /\ pc' = StartRaised
                   /\ ret' = "none"
                   /\ startErr' = "timeout"
                   /\ elapsed' = 0
              ELSE /\ elapsed' = Advance(elapsed, d)
                   /\ UNCHANGED <<pc, ret, startErr>>
    /\ UNCHANGED <<pureVars, mode, proc, pid, appendNote, raisedAt, diffKind, calls>>
    /\ UNCHANGED <<hostVars, spawned, termCount, waitCount, upAtStart,
                   inferCalls, snapTaken, finallyRan, stopInGen, genOutcome>>

\* ---- generate_commit_message ----

\* lines 234-235: pid = server.get_pid()
GenSnapshot ==
    /\ pc = "gen_snapshot"
    /\ pid' = get_pid
    /\ snapTaken' = TRUE
    /\ pc' = "gen_filter"
    /\ UNCHANGED <<pureVars, mode, ret, proc, elapsed, appendNote, raisedAt, diffKind, calls>>
    /\ UNCHANGED <<hostVars, spawned, termCount, waitCount, upAtStart, probed, startErr,
                   inferCalls, finallyRan, stopInGen, genOutcome>>

\* line 239: preprocess_diff(diff_text); the text __main__ passes is a string
GenFilter ==
    /\ pc = "gen_filter"
    /\ \E ok \in (IF mode = "main" THEN {TRUE} ELSE BOOLEAN), note \in BOOLEAN :
         IF ok
         THEN /\ appendNote' = note
              /\ pc' = "gen_infer"
              /\ UNCHANGED raisedAt
         ELSE /\ raisedAt' = "filter"
              /\ pc' = "gen_finally"
              /\ UNCHANGED appendNote
    /\ UNCHANGED <<pureVars, mode, ret, proc, elapsed, pid, diffKind, calls>>
    /\ UNCHANGED <<hostVars, histVars>>

\* where control goes when llm.generate raises
AfterInferErrorRetry == "gen_infer"
AfterInferError == "gen_finally"

\* line 240: response = llm.generate(filtered_diff_text); it answers only
\* while a server is serving
GenInfer ==
    /\ pc = "gen_infer"
    /\ inferCalls' = inferCalls + 1
    /\ \E ok \in (IF is_running THEN BOOLEAN ELSE {FALSE}) :
         IF ok
         THEN /\ pc' = "gen_clean"
              /\ UNCHANGED raisedAt
         ELSE /\ raisedAt' = "infer"
              /\ pc' = AfterInferError
    /\ UNCHANGED <<pureVars, mode, ret, proc, elapsed, pid, appendNote, diffKind, calls>>
    /\ UNCHANGED <<hostVars, spawned, termCount, waitCount, upAtStart, probed, startErr,
                   snapTaken, finallyRan, stopInGen, genOutcome>>

\* lines 241-245: append the note, re.sub the prefix away, return
GenClean ==
    /\ pc = "gen_clean"
    /\ \E ok \in BOOLEAN :
         /\ raisedAt' = IF ok THEN "none" ELSE "clean"
         /\ pc' = "gen_finally"
    /\ UNCHANGED <<pureVars, mode, ret, proc, elapsed, pid, appendNote, diffKind, calls>>
    /\ UNCHANGED <<hostVars, histVars>>

\* line 250: the test that guards server.stop() in the finally block
StopWanted == pid

\* what leaves generate_commit_message after the finally block
OutcomeSwallow == "returned"
Outcome == IF raisedAt = "none" THEN "returned" ELSE "raised"

\* lines 248-252: the finally block, then the return or the pending exception
GenFinally ==
    /\ pc = "gen_finally"
    /\ finallyRan' = TRUE
    /\ IF StopWanted
       THEN /\ StopBody
            /\ stopInGen' = TRUE
       ELSE UNCHANGED <<proc, ps, serving, termCount, waitCount, stopInGen>>
    /\ genOutcome' = Outcome
    /\ pc' = IF genOutcome' = "returned" THEN ret ELSE Raised
    /\ ret' = "none"
    /\ UNCHANGED <<pureVars, mode, elapsed, pid, appendNote, raisedAt, diffKind, calls>>
    /\ UNCHANGED <<spawned, upAtStart, probed, startErr, inferCalls, snapTaken>>

\* entry of generate_commit_message, returning to r
CallGenerate(r) ==
    /\ pc' = "gen_snapshot"
    /\ ret' = r
    /\ pid' = FALSE
    /\ appendNote' = FALSE
    /\ raisedAt' = "none"
    /\ inferCalls' = 0
    /\ snapTaken' = FALSE
    /\ finallyRan' = FALSE
    /\ stopInGen' = FALSE
    /\ genOutcome' = "running"

\* ---- __main__ ----

\* line 265: server.start()
MainStart ==
    /\ pc = "m_start"
    /\ pc' = "start_probe"
    /\ ret' = "m_read"
    /\ UNCHANGED <<pureVars, mode, proc, elapsed, pid, appendNote, raisedAt, diffKind, calls>>
    /\ UNCHANGED <<hostVars, histVars>>

\* lines 266-277: read the diff; exit(1) when it is empty or blank
MainRead ==
    /\ pc = "m_read"
    /\ \E k \in {"empty", "text", "unreadable"} :
         /\ diffKind' = k
         /\ pc' = CASE k = "unreadable" -> "crashed"
                    [] k = "empty" -> "exit1"
                    [] OTHER -> "m_gen"
    /\ UNCHANGED <<pureVars, mode, ret, proc, elapsed, pid, appendNote, raisedAt, calls>>
    /\ UNCHANGED <<hostVars, histVars>>

\* line 279: commit_msg = generate_commit_message(server, llm, diff_text, model_name)
MainGenerate ==
    /\ pc = "m_gen"
    /\ CallGenerate("m_print")
    /\ UNCHANGED <<pureVars, mode, proc, elapsed, diffKind, calls>>
    /\ UNCHANGED <<hostVars, spawned, termCount, waitCount, upAtStart, probed, startErr>>

\* lines 282-283: print, copy_to_clipboard (Popen(['pbcopy']) may raise)
MainPrint ==
    /\ pc = "m_print"
    /\ \E ok \in BOOLEAN : pc' = IF ok THEN "m_stop" ELSE "crashed"
    /\ UNCHANGED <<pureVars, mode, ret, proc, elapsed, pid, appendNote, raisedAt, diffKind, calls>>
    /\ UNCHANGED <<hostVars, histVars>>

\* line 284: server.stop()
MainStop ==
    /\ pc = "m_stop"
    /\ StopBody
    /\ pc' = "exit0"
    /\ UNCHANGED <<pureVars, mode, ret, elapsed, pid, appendNote, raisedAt, diffKind, calls>>
    /\ UNCHANGED <<spawned, upAtStart, probed, startErr,
                   inferCalls, snapTaken, finallyRan, stopInGen, genOutcome>>

\* ---- calls on one OllamaServer, in any order ----

ApiStart ==
    /\ mode = "api" /\ pc = "idle"
    /\ calls < MaxCalls
    /\ Cardinality(spawned) < MaxSpawn
    /\ calls' = calls + 1
    /\ pc' = "start_probe"
    /\ ret' = "idle"
    /\ UNCHANGED <<pureVars, mode, proc, elapsed, pid, appendNote, raisedAt, diffKind>>
    /\ UNCHANGED <<hostVars, histVars>>

ApiStop ==
    /\ mode = "api" /\ pc = "idle"
    /\ calls < MaxCalls
    /\ calls' = calls + 1
    /\ StopBody
    /\ UNCHANGED <<pureVars, mode, pc, ret, elapsed, pid, appendNote, raisedAt, diffKind>>
    /\ UNCHANGED <<spawned, upAtStart, probed, startErr,
                   inferCalls, snapTaken, finallyRan, stopInGen, genOutcome>>

ApiGetPid ==
    /\ mode = "api" /\ pc = "idle"
    /\ calls < MaxCalls
    /\ calls' = calls + 1
    /\ UNCHANGED <<pureVars, mode, pc, ret, proc, elapsed, pid, appendNote, raisedAt, diffKind>>
    /\ UNCHANGED <<hostVars, histVars>>

ApiGenerate ==
    /\ mode = "api" /\ pc = "idle"
    /\ calls < MaxCalls
    /\ calls' = calls + 1
    /\ CallGenerate("idle")
    /\ UNCHANGED <<pureVars, mode, proc, elapsed, diffKind>>
    /\ UNCHANGED <<hostVars, spawned, termCount, waitCount, upAtStart, probed, startErr>>

Host ==
    \/ ExtStart
    \/ ExtStop
    \/ \E p \in Pids : SrvReady(p)
    \/ \E p \in Pids : SrvExit(p)

Start == StartProbe \/ StartSpawn \/ StartPoll

Generate == GenSnapshot \/ GenFilter \/ GenInfer \/ GenClean \/ GenFinally

Main == MainStart \/ MainRead \/ MainGenerate \/ MainPrint \/ MainStop

Api == ApiStart \/ ApiStop \/ ApiGetPid \/ ApiGenerate

Next == Host \/ Start \/ Generate \/ Main \/ Api

Spec == Init /\ [][Next]_vars

\* the interpreter keeps running the thread of control
FairSpec == Spec /\ WF_vars(Start) /\ WF_vars(Generate) /\ WF_vars(Main)

\* ---- the text pipeline and the probe, each applied to every input ----

PureInit ==
    /\ mode = "pure"
    /\ pc \in {"p_start", "p_probe"}
    /\ ret = "none"
    /\ proc = None
    /\ ps = [p \in Procs |-> "unborn"]
    /\ serving = None
    /\ upAtStart = FALSE
    /\ elapsed = 0
    /\ pid = FALSE
    /\ appendNote = FALSE
    /\ raisedAt = "none"
    /\ diffKind = "unread"
    /\ calls = 0
    /\ spawned = {}
    /\ termCount = [p \in Procs |-> 0]
    /\ waitCount = [p \in Procs |-> 0]
    /\ probed = FALSE
    /\ startErr = "none"
    /\ inferCalls = 0
    /\ snapTaken = FALSE
    /\ finallyRan = FALSE
    /\ stopInGen = FALSE
    /\ genOutcome = "none"
    /\ IF pc = "p_start"
       THEN /\ diff_text \in Texts
            /\ distracting_files \in NoiseSets
            /\ http = "none"
       ELSE /\ diff_text = <<Blank>>
            /\ distracting_files = DefaultNoise
            /\ http \in HttpOutcomes
    /\ file_diffs = <<>>
    /\ filtered = [text |-> <<Blank>>, note |-> FALSE]
    /\ refiltered = [text |-> <<Blank>>, note |-> FALSE]
    /\ response = <<>>
    /\ commit_msg = <<>>
    /\ probe = "none"

lifeVars == <<mode, ret, proc, elapsed, pid, raisedAt, diffKind, calls, hostVars, histVars>>

\* line 148: file_diffs = split_diff_by_file(diff_text)
PureSplit ==
    /\ pc = "p_start"
    /\ file_diffs' = split_diff_by_file(diff_text)
    /\ pc' = "p_split"
    /\ UNCHANGED <<lifeVars, appendNote, diff_text, distracting_files, filtered,
                   refiltered, response, commit_msg, http, probe>>

\* line 239: filtered_diff_text, append_note = preprocess_diff(diff_text)
PureFilter ==
    /\ pc = "p_split"
    /\ filtered' = preprocess_diff(diff_text, distracting_files)
    /\ appendNote' = filtered'.note
    /\ pc' = "p_filtered"
    /\ UNCHANGED <<lifeVars, diff_text, distracting_files, file_diffs,
                   refiltered, response, commit_msg, http, probe>>

\* line 240: response = llm.generate(filtered_diff_text), whatever the model says
PureRespond ==
    /\ pc = "p_filtered"
    /\ response' \in Responses
    /\ pc' = "p_answered"
    /\ UNCHANGED <<lifeVars, appendNote, diff_text, distracting_files, file_diffs,
                   filtered, refiltered, commit_msg, http, probe>>

\* lines 241-245: the message returned
PureClean ==
    /\ pc = "p_answered"
    /\ commit_msg' = ReSub(WithNote(response, appendNote))
    /\ pc' = "p_done"
    /\ UNCHANGED <<lifeVars, appendNote, diff_text, distracting_files, file_diffs,
                   filtered, refiltered, response, http, probe>>

\* preprocess_diff applied to its own output
PureRefilter ==
    /\ pc = "p_filtered"
    /\ refiltered' = preprocess_diff(filtered.text, distracting_files)
    /\ pc' = "p_again"
    /\ UNCHANGED <<lifeVars, appendNote, diff_text, distracting_files, file_diffs,
                   filtered, response, commit_msg, http, probe>>

\* lines 37-42: is_running() against what the health check meets
PureProbe ==
    /\ pc = "p_probe"
    /\ probe' = is_running_on(http)
    /\ pc' = "p_probed"
    /\ UNCHANGED <<lifeVars, appendNote, diff_text, distracting_files, file_diffs,
                   filtered, refiltered, response, commit_msg, http>>

PureNext == PureSplit \/ PureFilter \/ PureRespond \/ PureClean \/ PureRefilter \/ PureProbe

PureSpec == PureInit /\ [][PureNext]_vars

\* ---- properties ----

StartPcs == {"start_probe", "start_spawn", "start_poll"}
GenPcs == {"gen_snapshot", "gen_filter", "gen_infer", "gen_clean", "gen_finally"}
EndPcs == {"exit0", "exit1", "crashed"}

\* a step that runs server.stop()
StopCalled == ApiStop \/ MainStop \/ (GenFinally /\ StopWanted)

\* C1: whatever calls are made, and on every path of the __main__ run, each
\* process the manager has terminated is one it spawned itself; a server
\* started by another actor is never terminated by the manager.
C1_OnlyOwnTerminated ==
    \A p \in Procs : (termCount[p] > 0 \/ waitCount[p] > 0) => p \in spawned

\* a run that found another actor's server up has called stop() in the finally
\* block and again at the end, and that server is still alive
C1_Witness ==
    /\ mode = "main" /\ pc = "exit0"
    /\ upAtStart /\ ps[ExtPid] = "alive"
    /\ stopInGen

\* C2: when generate_commit_message is left (by return or by an exception) and
\* its snapshot found no server running, server.stop() has been called.
C2_StopWhenNoneBefore ==
    (genOutcome \in {"returned", "raised"} /\ ~pid) => stopInGen

\* C3: when the __main__ run has ended, by whatever path, no process the
\* manager spawned during the run is still alive.
C3_NoLeakAtEnd ==
    (mode = "main" /\ pc \in EndPcs) => \A p \in spawned : ps[p] # "alive"

\* C4: in the __main__ run the snapshot of generate_commit_message tells
\* whether a server was up before the run began: false when none was up and
\* the manager spawned one (still alive), true when one was up (and still is).
C4_SnapshotReflectsBefore ==
    (mode = "main" /\ snapTaken) =>
        /\ (~upAtStart /\ ps[ExtPid] = "unborn" /\ proc # None /\ ps[proc] = "alive") => ~pid
        /\ (upAtStart /\ ps[ExtPid] = "alive") => pid

\* C5: stop() is idempotent: with no owned process it changes nothing; with an
\* owned process it terminates and waits once and clears the handle, so that a
\* second call changes nothing; no process is terminated or waited on twice.
C5_StopIdempotent ==
    /\ [](\A p \in Procs : termCount[p] <= 1 /\ waitCount[p] <= 1)
    /\ [][StopCalled =>
            /\ proc' = None
            /\ proc = None => UNCHANGED <<ps, serving, termCount, waitCount>>
            /\ proc # None => /\ termCount'[proc] = 1 /\ waitCount'[proc] = 1
                              /\ ps'[proc] = "exited"]_vars

\* stop() has run twice in the run (finally block, then line 284) on a manager
\* that owned a process: terminated once, handle cleared
C5_Witness ==
    /\ mode = "main" /\ pc = "exit0" /\ stopInGen
    /\ \E p \in spawned : termCount[p] = 1 /\ waitCount[p] = 1
    /\ proc = None

\* C6 as stated: start() called while the probe answers spawns nothing and
\* leaves the handle unchanged and unset.
C6_ProbeTrueLeavesUnset ==
    [][(StartProbe /\ is_running) =>
          (proc' = None /\ spawned' = spawned /\ ps' = ps)]_vars

\* C6 amended: start() called while the probe answers spawns nothing, returns
\* at once and leaves the handle unchanged: unset when it was unset before the
\* call, and still owning the process when the manager owned one.
C6_ProbeTrueLeavesUnchanged ==
    [][(StartProbe /\ is_running) =>
          /\ proc' = proc
          /\ proc = None => proc' = None
          /\ spawned' = spawned /\ ps' = ps /\ serving' = serving
          /\ pc' = ret /\ startErr' = "ok"]_vars

\* start() has returned at once on a manager that never spawned
C6_Witness ==
    /\ startErr = "ok" /\ pc \notin StartPcs
    /\ spawned = {} /\ proc = None /\ probed

\* C7: start() always ends: once entered it returns or raises, it never polls
\* forever, whatever the server does.
C7_StartTerminates ==
    (pc \in StartPcs) ~> (pc \notin StartPcs)

\* start() spawned, polled past the deadline and raised the timeout
C7_Witness ==
    /\ startErr = "timeout" /\ pc \notin StartPcs
    /\ proc # None /\ proc \in spawned

\* C8: in the __main__ run a startup timeout ends the run: no request is begun
\* and llm.generate is never called.
C8_TimeoutAbortsRequest ==
    (mode = "main" /\ startErr = "timeout") =>
        (pc = "crashed" /\ inferCalls = 0 /\ genOutcome = "none" /\ ~snapTaken)

C8_Witness ==
    mode = "main" /\ startErr = "timeout" /\ pc = "crashed"

\* C9: in a __main__ run whose diff is empty or blank the run exits with
\* failure, no liveness probe was issued, no process spawned, no inference made.
C9_EmptyRejectedFirst ==
    (mode = "main" /\ diffKind = "empty") =>
        (pc = "exit1" /\ ~probed /\ spawned = {} /\ inferCalls = 0)

\* C10: a request calls llm.generate at most once, exactly once when it
\* returns a message; when the call fails the request ends by raising, never by
\* returning, and control leaves only after the finally block has run.
C10_OneInferenceErrorAfterCleanup ==
    /\ inferCalls <= 1
    /\ genOutcome = "returned" => inferCalls = 1
    /\ genOutcome \in {"returned", "raised"} => finallyRan
    /\ (raisedAt = "infer" /\ pc \notin GenPcs) =>
            (genOutcome = "raised" /\ finallyRan /\ inferCalls = 1)
    /\ (raisedAt = "infer" /\ mode = "main" /\ pc \notin GenPcs) => pc = "crashed"

C10_Witness ==
    /\ raisedAt = "infer" /\ genOutcome = "raised"
    /\ finallyRan /\ inferCalls = 1 /\ pc \notin GenPcs

\* ---- properties of the text pipeline ----

\* t without the blank pieces at its end (the text up to its final newlines)
RECURSIVE RStrip(_)
RStrip(t) ==
    IF t # <<>> /\ t[Len(t)] = Blank THEN RStrip(SubSeq(t, 1, Len(t) - 1)) ELSE t

IsPrefixOf(a, b) == Len(a) <= Len(b) /\ SubSeq(b, 1, Len(a)) = a
IsSuffixOf(a, b) == Len(a) <= Len(b) /\ SubSeq(b, Len(b) - Len(a) + 1, Len(b)) = a

\* the lines of the diff and the well-formed headers among them
DiffLines == splitlines(diff_text)
HeaderAt(i) == DiffLines[i].k = "hdr"

\* s without the repeats of an element already met
RECURSIVE Dedup(_)
Dedup(q) ==
    IF q = <<>> THEN <<>>
    ELSE LET r == Dedup(SubSeq(q, 1, Len(q) - 1))
             x == q[Len(q)]
         IN IF \E i \in 1..Len(r) : r[i] = x THEN r ELSE Append(r, x)

\* the post-change (b/) paths of the headers, in order of first appearance
RECURSIVE PostPaths(_)
PostPaths(ls) ==
    IF ls = <<>> THEN <<>>
    ELSE IF Head(ls).k = "hdr" THEN <<Head(ls).b>> \o PostPaths(Tail(ls))
         ELSE PostPaths(Tail(ls))

\* C11: the keys of split_diff_by_file(D) are the post-change (b/) paths of
\* the headers of D, each once, in order of first appearance, so that D with N
\* distinct file headers has N keys; a rename header counts with its b/ path.
C11_KeysArePostChangePaths ==
    pc = "p_split" => KeysOf(file_diffs) = Dedup(PostPaths(DiffLines))

\* the segments of the keys that are not noise, in insertion order
KeptValues(d, noise) == ValuesOf(SelectSeq(d, LAMBDA e : e.key \notin noise))

C13_FilterIdempotent ==
    pc = "p_again" =>
        /\ RStrip(refiltered.text) = RStrip(filtered.text)
        /\ ~refiltered.note

\* no two headers of the diff name the same file
DistinctHeaders ==
    \A i, j \in 1..Len(DiffLines) :
        (HeaderAt(i) /\ HeaderAt(j) /\ i # j) =>
            FileOf(DiffLines[i], NoFile) # FileOf(DiffLines[j], NoFile)

\* C14: the segments of split_diff_by_file(D), joined by newline in key order,
\* are D up to the white space at its end: no line lost, repeated or moved.
\* Stated for a D that begins with a header and names no file twice.
C14_SegmentsRebuildDiff ==
    (pc = "p_split" /\ DiffLines # <<>> /\ HeaderAt(1) /\ DistinctHeaders) =>
        RStrip(JoinStrs(ValuesOf(file_diffs))) = RStrip(diff_text)

\* the message of lines 241-245 when the prefix counts only at the very start
StripAtStart(r) ==
    IF r # <<>> /\ Lower(Head(r)) = PfxLower THEN SkipWs(Tail(r)) ELSE r

\* the response with the clause when and only when the omission was noted
Noted == IF filtered.note THEN response \o Clause ELSE response

\* C15 as stated: the message is the response, with the clause exactly when
\* the omission was noted, and with the prefix and the white space after it
\* removed only when the prefix is the very start of the string.
C15_PrefixOnlyAtVeryStart ==
    pc = "p_done" => commit_msg = StripAtStart(Noted)

\* the place of a prefix that only white space precedes, 0 when there is none
LeadingPrefixAt(r) ==
    IF \E j \in 1..Len(r) : r[j] \in {Pfx, PfxLower} /\ \A i \in 1..(j - 1) : r[i] = "ws"
    THEN CHOOSE j \in 1..Len(r) : r[j] \in {Pfx, PfxLower} /\ \A i \in 1..(j - 1) : r[i] = "ws"
    ELSE 0

\* C15 amended: the message is the response, with the clause exactly when the
\* omission was noted, and with the prefix (either case) removed when only
\* white space precedes it, together with that white space and the white space
\* after it; any other response is returned whole.
C15_PrefixAfterLeadingSpace ==
    pc = "p_done" =>
        LET cut == Len(Noted) - Len(commit_msg)
            j == LeadingPrefixAt(Noted)
        IN /\ IsSuffixOf(commit_msg, Noted)
           /\ j = 0 => cut = 0
           /\ j > 0 => /\ cut >= j
                       /\ \A i \in (j + 1)..cut : Noted[i] = "ws"
                       /\ commit_msg # <<>> => Head(commit_msg) # "ws"

\* a response that begins with the prefix, for a diff whose noise file was left
\* out: the prefix is gone and the clause is there
C15_Witness ==
    /\ pc = "p_done"
    /\ filtered.note
    /\ response # <<>> /\ Head(response) \in {Pfx, PfxLower}
    /\ Len(commit_msg) >= 1
    /\ commit_msg[Len(commit_msg)] = "and updated documentation accordingly"
    /\ \A i \in 1..Len(commit_msg) : commit_msg[i] \notin {Pfx, PfxLower}

\* C16: is_running never raises; it is true exactly when the health check
\* answers 200, false for another status, a network error or a timeout.
C16_ProbeNeverRaises ==
    pc = "p_probed" =>
        /\ probe \in {"True", "False"}
        /\ (probe = "True") = (http = "200")

\* the health check timed out and is_running answered False
C16_Witness ==
    pc = "p_probed" /\ http = "timeout" /\ probe = "False"

\* C17: a malformed header (diff --git with fewer than 3 tokens) counts as a
\* content line: it opens no key, and the segment of the file opened before it
\* keeps that file's lines from its header up to and including the malformed
\* line (stated when no later header names that file again).
C17_MalformedHeaderIsContent ==
    pc = "p_split" =>
        /\ Len(file_diffs) = Cardinality({FileOf(DiffLines[i], NoFile) :
                                            i \in {n \in 1..Len(DiffLines) : HeaderAt(n)}})
        /\ \A i \in 1..Len(DiffLines), h \in 1..Len(DiffLines) :
              ( /\ DiffLines[i].k = "bad"
                /\ h < i /\ HeaderAt(h)
                /\ \A m \in (h + 1)..(i - 1) : DiffLines[m].k \notin {"hdr", "bad"}
                /\ \A m \in (i + 1)..Len(DiffLines) :
                      HeaderAt(m) => FileOf(DiffLines[m], NoFile) # FileOf(DiffLines[h], NoFile) )
              => \E e \in 1..Len(file_diffs) :
                    IsPrefixOf(SubSeq(DiffLines, h, i), file_diffs[e].val)

\* C18: whatever start() and stop() calls are made, every process the manager
\* spawned and has not terminated is the one self.proc refers to: start() never
\* replaces a handle to a spawned process that is still alive, so at most one
\* spawned process is alive and stop() reaches it.
C18_HandleCoversLiveSpawned ==
    /\ \A p \in spawned : ps[p] = "alive" => proc = p
    /\ Cardinality({p \in spawned : ps[p] = "alive"}) <= 1

====
